---- MODULE Spec2Model ----
(***************************************************************************)
(* WebflowStyles: a Designer extension (src/src/index.ts).                 *)
(*                                                                         *)
(* The extension is a set of DOM event handlers that call the host object  *)
(* model `webflow`.  The model is a state machine of the single UI thread: *)
(* a click runs a handler up to its first `await`, and every settlement of *)
(* an awaited host promise runs the continuation up to the next `await`    *)
(* (run to completion).  The host is an external collaborator: each host   *)
(* call may succeed or fail, and the user may change the selection between *)
(* any two steps.                                                          *)
(*                                                                         *)
(* Strings that the code only moves around or compares for equality are    *)
(* TLA+ strings.  The hex colour input and the colour dropdown value are   *)
(* sequences of one-character strings, because the code matches a regular  *)
(* expression against them.  A template literal is the sequence of its     *)
(* literal parts and interpolated values.                                  *)
(***************************************************************************)
EXTENDS Naturals, Sequences, FiniteSets, TLC

(***************************************************************************)
(* Bounds of the model.                                                    *)
(***************************************************************************)
\* clicks (apply and check together) handled in one session
MaxClicks == 2
\* longest text typed into the hex colour input
MaxHexLen == 7

(***************************************************************************)
(* The environment: the page's controls and the host document.             *)
(***************************************************************************)
\* characters the user types into the hex input
HexAlphabet == {"#", "F", "a", "g"}
\* values the font size <select> can hold ("" when no option is selected)
FontSizeValues == {"", "16px"}
\* values the colour <select> can hold (<<>> is the empty string)
ColorValues == {<<>>, <<"r", "e", "d">>}
\* texts typed into the combo class input
ClassNameInputs == {"hero", "Hero"}
\* hex inputs used when the host interaction is explored
SampleHexInputs == {<<>>, <<"#", "F", "0", "0">>}

NoElement == "null"
\* e1 is an element that supports styling, e2 one that does not
Elements == {"e1", "e2"}
\* the host's `styles` presence guard of an element (Element.styles)
ElementHasStyles(e) == e = "e1"
\* what a failing host call throws, stringified by the template literal
HostError == "Error: host failure"
\* calling .some on a Promise
SomeTypeError == "TypeError: styles.some is not a function"

VARIABLES
  booted,             \* DOMContentLoaded has run: handlers are attached
  dropdownPresent,    \* the page has the #fontFamilyDropdown element
  fontFamilyOptions,  \* <option>s of #fontFamilyDropdown, in order
  styleCounter,       \* the closure variable styleCounter
  actions,            \* every click so far: the state of its async handler
  lastSettled,        \* the handler whose promise settled last (0: none)
  selection,          \* host: the element selected in the Designer
  hostStyles,         \* host: styles, by handle (index)
  attached,           \* host: styles attached to each element (handles)
  persistedAttached,  \* host: styles of each element as last saved
  feedback            \* #feedbackMessage: textContent and style.color

vars == <<booted, dropdownPresent, fontFamilyOptions, styleCounter, actions,
          lastSettled, selection, hostStyles, attached, persistedAttached,
          feedback>>

hostVars == <<selection, hostStyles, attached, persistedAttached>>
pageVars == <<booted, dropdownPresent, fontFamilyOptions>>

(***************************************************************************)
(* Pure functions of the source.                                           *)
(***************************************************************************)
\* the character class [A-Fa-f0-9]
HexDigits == {"0", "1", "2", "3", "4", "5", "6", "7", "8", "9",
              "A", "B", "C", "D", "E", "F", "a", "b", "c", "d", "e", "f"}

\* [A-Fa-f0-9]{n} matched at position `from` of s: the position after the
\* match, or 0 when it does not match
MatchHexRun(s, from, n) ==
  IF from + n - 1 <= Len(s) /\ \A i \in from..(from + n - 1) : s[i] \in HexDigits
  THEN from + n
  ELSE 0

\* the same pattern without the `$` anchor
HexColorPatternUnanchored(s) ==
  /\ Len(s) >= 1
  /\ s[1] = "#"
  /\ \/ MatchHexRun(s, 2, 6) # 0
     \/ MatchHexRun(s, 2, 3) # 0

\* /^#([A-Fa-f0-9]{6}|[A-Fa-f0-9]{3})$/.test(s): `^` anchors at position 1,
\* the alternatives are tried in order and `$` needs the end of the input
HexColorPattern(s) ==
  /\ Len(s) >= 1
  /\ s[1] = "#"
  /\ \/ MatchHexRun(s, 2, 6) = Len(s) + 1
     \/ MatchHexRun(s, 2, 3) = Len(s) + 1

\* getFontColorValue(): hexValue is #fontColorHex's value, dropdownValue is
\* #fontColorDropdown's value; a non-empty string is truthy
getFontColorValue(hexValue, dropdownValue) ==
  IF hexValue # <<>> /\ HexColorPattern(hexValue)
  THEN hexValue
  ELSE dropdownValue

DecimalDigits == <<"0", "1", "2", "3", "4", "5", "6", "7", "8", "9">>

\* String(n) for a non-negative integer
RECURSIVE Decimal(_)
Decimal(n) ==
  IF n < 10
  THEN DecimalDigits[n + 1]
  ELSE Decimal(n \div 10) \o DecimalDigits[(n % 10) + 1]

\* the name built from the counter after the increment (++styleCounter)
StyleNamePreIncrement(n) == "dynamicStyle" \o Decimal(n + 1)

\* `dynamicStyle${n}`
StyleName(n) == "dynamicStyle" \o Decimal(n)

\* the object literal without its font-family entry
StyleObjectWithoutFamily(fontSize, fontColor, fontFamily) ==
  [k \in {"font-size", "color"} |->
     CASE k = "font-size" -> fontSize
       [] k = "color" -> fontColor]

\* the object literal passed to applyStyles
StyleObject(fontSize, fontColor, fontFamily) ==
  [k \in {"font-size", "color", "font-family"} |->
     CASE k = "font-size" -> fontSize
       [] k = "color" -> fontColor
       [] k = "font-family" -> fontFamily]

\* the fonts of populateFontFamilyDropdown
Fonts == <<"Arial", "Verdana", "Helvetica", "Times New Roman", "Georgia",
           "Courier New">>

\* fonts.forEach(font => dropdown?.appendChild(option(font))) from index i on
RECURSIVE AppendFontOptions(_, _, _)
AppendFontOptions(options, present, i) ==
  IF i > Len(Fonts)
  THEN options
  ELSE AppendFontOptions(
         IF present
         THEN Append(options, [value |-> Fonts[i], textContent |-> Fonts[i]])
         ELSE options,
         present, i + 1)

\* the forEach starting at the second font
populateFontFamilyDropdownFromSecond(options, present) ==
  AppendFontOptions(options, present, 2)

populateFontFamilyDropdown(options, present) ==
  AppendFontOptions(options, present, 1)

\* displayFeedback with the two colors exchanged
displayFeedbackSwapped(message, type) ==
  [textContent |-> message,
   color |-> IF type = "error" THEN "green" ELSE "red"]

\* displayFeedback(message, type): the new state of #feedbackMessage
displayFeedback(message, type) ==
  [textContent |-> message,
   color |-> IF type = "error" THEN "red" ELSE "green"]

MsgNoSelection == <<"No element is currently selected.">>
MsgApplied == <<"Styles successfully applied!">>
MsgApplyError(cause) == <<"Error applying styles: ", cause>>
MsgExists(name) == <<"Combo class \"", name, "\" exists.">>
MsgNotExists(name) == <<"Combo class \"", name, "\" does not exist.">>
MsgCheckError(cause) == <<"Error checking for combo class: ", cause>>

\* styles.some(style => style.getName() === name) from index i on: the
\* styles are visited in order and the search stops at the first match
RECURSIVE SomeNamed(_, _, _)
SomeNamed(names, name, i) ==
  IF i > Len(names)
  THEN FALSE
  ELSE IF names[i] = name THEN TRUE ELSE SomeNamed(names, name, i + 1)

\* the number of styles the search visits from index i on: one getName()
\* call is made on each style up to and including the first match
RECURSIVE Visited(_, _, _)
Visited(names, name, i) ==
  IF i > Len(names)
  THEN 0
  ELSE IF names[i] = name THEN 1 ELSE 1 + Visited(names, name, i + 1)

\* the getName() calls of the search
GetNameCalls(names, name) ==
  [i \in 1..Visited(names, name, 1) |-> "getName"]

\* what Element.getStyles() yields: the display names of the attached styles
StyleNames(e) ==
  IF e \in Elements
  THEN [i \in 1..Len(attached[e]) |-> hostStyles[attached[e][i]].name]
  ELSE <<>>


\* styleCounter++ leaving the counter as it was
NextCounterStuck(n) == n

\* styleCounter++: the value of the counter after the click
NextCounter(n) == n + 1

\* values of the <option>s the family dropdown holds
OptionValues == {fontFamilyOptions[i].value : i \in 1..Len(fontFamilyOptions)}

(***************************************************************************)
(* The state of one click's async handler.                                 *)
(*   kind            "apply" (submitStyles) or "check" (checkComboClass)   *)
(*   pc              the host promise the handler is suspended on, or how  *)
(*                   its own promise settled ("resolved", "rejected")          *)
(*   name            styleName, or comboClassName                          *)
(*   styleObject     the object passed to applyStyles                      *)
(*   selectedElement the local constant selectedElement                    *)
(*   myStyle         the local myStyle: a handle, 0 before createStyle     *)
(*   read            the control values the click read                     *)
(*   calls, reports  the host calls made and the displayFeedback calls     *)
(*                   made by this handler, in order                        *)
(*   seen            what getStyles() returned: "none", "list", "promise"  *)
(*   names           the style names of the element when it was searched   *)
(*   failed          the host call of this handler that failed ("": none)  *)
(***************************************************************************)
NoRead == [fontSize |-> "", hex |-> <<>>, dropdown |-> <<>>, fontFamily |-> "",
           comboClass |-> ""]

NewAction(kind, name) ==
  [kind |-> kind, pc |-> "getSelectedElement", name |-> name,
   styleObject |-> <<>>, selectedElement |-> NoElement, myStyle |-> 0,
   read |-> NoRead, calls |-> <<"getSelectedElement">>, reports |-> <<>>,
   seen |-> "none", names |-> <<>>, failed |-> ""]

InFlight(a, kind, pc) ==
  /\ a \in 1..Len(actions)
  /\ actions[a].kind = kind
  /\ actions[a].pc = pc

Called(rec, ops) == [rec EXCEPT !.calls = @ \o ops]

\* the last of the calls `ops` throws or rejects
Failing(rec, ops) == [Called(rec, ops) EXCEPT !.failed = ops[Len(ops)]]

\* the pending host promise of the handler rejects
Rejected(rec) == [rec EXCEPT !.failed = rec.pc]

\* the `!selectedElement` test taken as never true
IsNullNever(el) == FALSE

\* `!selectedElement`
IsNull(el) == el = NoElement

\* the style added to the styles the element already has
AttachStyleKeepingOld(e, style) == [attached EXCEPT ![e] = Append(@, style)]

\* setStyles called with the style created just before this action's own
AttachEarlierStyle(e, style) == [attached EXCEPT ![e] = <<style - 1>>]

\* setStyles called on the element selected when the style save resolves
AttachStyleToSelection(e, style) ==
  IF selection \in Elements
  THEN [attached EXCEPT ![selection] = <<style>>]
  ELSE attached

\* selectedElement.setStyles([myStyle]): the element's styles after the call
AttachStyle(e, style) == [attached EXCEPT ![e] = <<style>>]

\* the handler calls displayFeedback(message, type) and returns
ReportAndResolve(a, rec, message, type) ==
  /\ actions' = [actions EXCEPT ![a] =
                   [rec EXCEPT !.pc = "resolved",
                               !.reports = Append(@, [message |-> message,
                                                      type |-> type])]]
  /\ feedback' = displayFeedback(message, type)
  /\ lastSettled' = a

\* the handler returns after a Success report made outside the
\* `if (selectedElement.styles)` block
ResolveWithSuccess(a, rec) ==
  ReportAndResolve(a, rec, MsgApplied, "success")

\* the handler returns without a report
ResolveSilently(a, rec) ==
  /\ actions' = [actions EXCEPT ![a] = [rec EXCEPT !.pc = "resolved"]]
  /\ lastSettled' = a
  /\ UNCHANGED feedback

\* an exception leaves the async function: its promise rejects
Reject(a, rec) ==
  /\ actions' = [actions EXCEPT ![a] = [rec EXCEPT !.pc = "rejected"]]
  /\ lastSettled' = a
  /\ UNCHANGED feedback

\* the handler suspends on the promise of a host call
Suspend(a, rec, pc) ==
  /\ actions' = [actions EXCEPT ![a] = [rec EXCEPT !.pc = pc]]
  /\ UNCHANGED <<feedback, lastSettled>>

(***************************************************************************)
(* Init: the page is loaded, DOMContentLoaded has not fired yet.  The host *)
(* document has one style, "hero", attached to element e1.                 *)
(***************************************************************************)
Init ==
  /\ booted = FALSE
  /\ dropdownPresent \in BOOLEAN
  /\ fontFamilyOptions = <<>>
  /\ styleCounter = 0
  /\ actions = <<>>
  /\ lastSettled = 0
  /\ selection = NoElement
  /\ hostStyles = <<[name |-> "hero", properties |-> <<>>, saved |-> TRUE]>>
  /\ attached = [e \in Elements |-> IF e = "e1" THEN <<1>> ELSE <<>>]
  /\ persistedAttached = [e \in Elements |-> IF e = "e1" THEN <<1>> ELSE <<>>]
  /\ feedback = [textContent |-> <<>>, color |-> ""]

\* the DOMContentLoaded listener
Bootstrap ==
  /\ ~booted
  /\ booted' = TRUE
  /\ fontFamilyOptions' = populateFontFamilyDropdown(fontFamilyOptions, dropdownPresent)
  /\ styleCounter' = 0
  /\ UNCHANGED <<dropdownPresent, actions, lastSettled, hostVars, feedback>>

\* the user selects another element, or clears the selection
UserSelects(e) ==
  /\ booted
  /\ e # selection
  /\ selection' = e
  /\ UNCHANGED <<pageVars, styleCounter, actions, lastSettled, hostStyles,
                 attached, persistedAttached, feedback>>

(***************************************************************************)
(* The submitStyles click handler and applyStyles.                         *)
(***************************************************************************)
\* click on #submitStyles with the controls holding the given values, up to
\* the first await.  Without #fontFamilyDropdown reading `.value` of null
\* throws before the name is generated.
SubmitClick(fontSize, hexValue, dropdownValue, fontFamily) ==
  /\ booted
  /\ Len(actions) < MaxClicks
  /\ IF dropdownPresent
     THEN /\ fontFamily \in OptionValues
          /\ styleCounter' = NextCounter(styleCounter)
          /\ actions' = Append(actions,
               [NewAction("apply", StyleName(styleCounter)) EXCEPT
                  !.styleObject = StyleObject(fontSize,
                                    getFontColorValue(hexValue, dropdownValue),
                                    fontFamily),
                  !.read = [NoRead EXCEPT !.fontSize = fontSize,
                                          !.hex = hexValue,
                                          !.dropdown = dropdownValue,
                                          !.fontFamily = fontFamily]])
          /\ lastSettled' = lastSettled
     ELSE /\ fontFamily = ""
          /\ styleCounter' = styleCounter
          /\ actions' = Append(actions,
               [NewAction("apply", "") EXCEPT
                  !.pc = "rejected", !.calls = <<>>,
                  !.read = [NoRead EXCEPT !.fontSize = fontSize,
                                          !.hex = hexValue,
                                          !.dropdown = dropdownValue]])
          /\ lastSettled' = Len(actions) + 1
  /\ UNCHANGED <<pageVars, hostVars, feedback>>

\* line 38: the awaited getSelectedElement() fails; the await is outside the
\* try block, so applyStyles and the click handler reject
ApplySelectedRejects(a) ==
  /\ InFlight(a, "apply", "getSelectedElement")
  /\ Reject(a, Rejected(actions[a]))
  /\ UNCHANGED <<pageVars, styleCounter, hostVars>>

\* lines 40-43: no element is selected
ApplyNoSelection(a) ==
  /\ InFlight(a, "apply", "getSelectedElement")
  /\ IsNull(selection)
  /\ ReportAndResolve(a, actions[a], MsgNoSelection, "error")
  /\ UNCHANGED <<pageVars, styleCounter, hostVars>>

\* the host's createStyle(name) with the given properties set on the style
CreatedStyle(name, properties) ==
  [name |-> name, properties |-> properties, saved |-> FALSE]

\* lines 45-48: createStyle, setProperties and the call of save(), each of
\* which may throw into the catch block
ApplyCreateStyle(a) ==
  /\ InFlight(a, "apply", "getSelectedElement")
  /\ ~IsNull(selection)
  /\ LET rec == [actions[a] EXCEPT !.selectedElement = selection]
         made == [rec EXCEPT !.myStyle = Len(hostStyles) + 1]
     IN \/ /\ ReportAndResolve(a, Failing(rec, <<"createStyle">>),
                               MsgApplyError(HostError), "error")
           /\ UNCHANGED hostStyles
        \/ /\ ReportAndResolve(a, Failing(made, <<"createStyle", "setProperties">>),
                               MsgApplyError(HostError), "error")
           /\ hostStyles' = Append(hostStyles, CreatedStyle(rec.name, <<>>))
        \/ /\ ReportAndResolve(a, Failing(made, <<"createStyle", "setProperties", "style.save">>),
                               MsgApplyError(HostError), "error")
           /\ hostStyles' = Append(hostStyles, CreatedStyle(rec.name, rec.styleObject))
        \/ /\ Suspend(a, Called(made, <<"createStyle", "setProperties", "style.save">>),
                      "style.save")
           /\ hostStyles' = Append(hostStyles, CreatedStyle(rec.name, rec.styleObject))
  /\ UNCHANGED <<pageVars, styleCounter, selection, attached, persistedAttached>>

\* line 48 with the rejected save() called a second time before the failure
\* is reported
ApplyStyleSaveRetriedOnce(a) ==
  /\ InFlight(a, "apply", "style.save")
  /\ IF actions[a].failed = ""
     THEN Suspend(a, Failing(actions[a], <<"style.save">>), "style.save")
     ELSE ReportAndResolve(a, actions[a], MsgApplyError(HostError), "error")
  /\ UNCHANGED <<pageVars, styleCounter, hostVars>>

\* line 48: the awaited style save fails
ApplyStyleSaveRejects(a) ==
  /\ InFlight(a, "apply", "style.save")
  /\ ReportAndResolve(a, Rejected(actions[a]), MsgApplyError(HostError), "error")
  /\ UNCHANGED <<pageVars, styleCounter, hostVars>>

\* lines 50-54: the style is saved; with a styles collection the style is
\* attached and the element's save() is called
ApplyAttach(a) ==
  /\ InFlight(a, "apply", "style.save")
  /\ LET rec == actions[a]
         el == rec.selectedElement
     IN /\ hostStyles' = [hostStyles EXCEPT ![rec.myStyle].saved = TRUE]
        /\ IF ElementHasStyles(el)
           THEN \/ /\ ReportAndResolve(a, Failing(rec, <<"setStyles">>),
                                       MsgApplyError(HostError), "error")
                   /\ UNCHANGED attached
                \/ /\ ReportAndResolve(a, Failing(rec, <<"setStyles", "element.save">>),
                                       MsgApplyError(HostError), "error")
                   /\ attached' = AttachStyle(el, rec.myStyle)
                \/ /\ Suspend(a, Called(rec, <<"setStyles", "element.save">>),
                              "element.save")
                   /\ attached' = AttachStyle(el, rec.myStyle)
           ELSE /\ ResolveSilently(a, rec)
                /\ UNCHANGED attached
  /\ UNCHANGED <<pageVars, styleCounter, selection, persistedAttached>>

\* line 52: the awaited element save fails
ApplyElementSaveRejects(a) ==
  /\ InFlight(a, "apply", "element.save")
  /\ ReportAndResolve(a, Rejected(actions[a]), MsgApplyError(HostError), "error")
  /\ UNCHANGED <<pageVars, styleCounter, hostVars>>

\* the Success report made without waiting for the element's save
ApplySuccessBeforeElementSaved(a) ==
  /\ InFlight(a, "apply", "element.save")
  /\ ReportAndResolve(a, actions[a], MsgApplied, "success")
  /\ UNCHANGED <<pageVars, styleCounter, hostVars>>

\* lines 52-53: the element is saved
ApplyElementSaved(a) ==
  /\ InFlight(a, "apply", "element.save")
  /\ LET el == actions[a].selectedElement
     IN persistedAttached' = [persistedAttached EXCEPT ![el] = attached[el]]
  /\ ReportAndResolve(a, actions[a], MsgApplied, "success")
  /\ UNCHANGED <<pageVars, styleCounter, selection, hostStyles, attached>>

(***************************************************************************)
(* The checkComboClass click handler and checkComboClass.                  *)
(***************************************************************************)
\* the check click handler incrementing styleCounter as the submit handler
\* does
CheckClickCounting(comboClassName) ==
  /\ booted
  /\ Len(actions) < MaxClicks
  /\ actions' = Append(actions,
       [NewAction("check", comboClassName) EXCEPT
          !.read = [NoRead EXCEPT !.comboClass = comboClassName]])
  /\ styleCounter' = NextCounter(styleCounter)
  /\ UNCHANGED <<pageVars, lastSettled, hostVars, feedback>>

\* click on #checkComboClass with the input holding comboClassName
CheckClick(comboClassName) ==
  /\ booted
  /\ Len(actions) < MaxClicks
  /\ actions' = Append(actions,
       [NewAction("check", comboClassName) EXCEPT
          !.read = [NoRead EXCEPT !.comboClass = comboClassName]])
  /\ UNCHANGED <<pageVars, styleCounter, lastSettled, hostVars, feedback>>

\* line 140: the awaited getSelectedElement() fails, outside the try block
CheckSelectedRejects(a) ==
  /\ InFlight(a, "check", "getSelectedElement")
  /\ Reject(a, Rejected(actions[a]))
  /\ UNCHANGED <<pageVars, styleCounter, hostVars>>

\* lines 142-145: no element is selected
CheckNoSelection(a) ==
  /\ InFlight(a, "check", "getSelectedElement")
  /\ IsNull(selection)
  /\ ReportAndResolve(a, actions[a], MsgNoSelection, "error")
  /\ UNCHANGED <<pageVars, styleCounter, hostVars>>

\* lines 147-159: getStyles() is called and its result searched without an
\* await.  The host returns the list or a promise of it, or a call throws.
\* The search calls getName() on every style it visits.
CheckSearch(a) ==
  /\ InFlight(a, "check", "getSelectedElement")
  /\ ~IsNull(selection)
  /\ LET rec == [actions[a] EXCEPT !.selectedElement = selection,
                                   !.names = StyleNames(selection)]
         name == rec.name
     IN \/ \* getStyles() throws
           ReportAndResolve(a, Failing(rec, <<"getStyles">>),
                            MsgCheckError(HostError), "error")
        \/ \* getStyles() returns a promise: a promise has no .some
           ReportAndResolve(a, [Called(rec, <<"getStyles">>) EXCEPT !.seen = "promise"],
                            MsgCheckError(SomeTypeError), "error")
        \/ \* getStyles() returns the list and the k-th getName() throws,
           \* on a style the search gets to
           \E k \in 1..Visited(rec.names, name, 1) :
             ReportAndResolve(a,
               [Failing(rec, <<"getStyles">> \o [i \in 1..k |-> "getName"])
                  EXCEPT !.seen = "list"],
               MsgCheckError(HostError), "error")
        \/ \* getStyles() returns the list
           LET done == [Called(rec, <<"getStyles">> \o GetNameCalls(rec.names, name))
                          EXCEPT !.seen = "list"]
           IN IF SomeNamed(rec.names, name, 1)
              THEN ReportAndResolve(a, done, MsgExists(name), "success")
              ELSE ReportAndResolve(a, done, MsgNotExists(name), "error")
  /\ UNCHANGED <<pageVars, styleCounter, hostVars>>

(***************************************************************************)
(* The session: the host interaction under every interleaving.             *)
(***************************************************************************)
Next ==
  \/ Bootstrap
  \/ \E e \in Elements \cup {NoElement} : UserSelects(e)
  \/ \E hexValue \in SampleHexInputs, fontFamily \in {"", Fonts[1]} :
       SubmitClick("16px", hexValue, <<"r", "e", "d">>, fontFamily)
  \/ \E comboClassName \in ClassNameInputs : CheckClick(comboClassName)
  \/ \E a \in 1..Len(actions) : ApplySelectedRejects(a)
  \/ \E a \in 1..Len(actions) : ApplyNoSelection(a)
  \/ \E a \in 1..Len(actions) : ApplyCreateStyle(a)
  \/ \E a \in 1..Len(actions) : ApplyStyleSaveRejects(a)
  \/ \E a \in 1..Len(actions) : ApplyAttach(a)
  \/ \E a \in 1..Len(actions) : ApplyElementSaveRejects(a)
  \/ \E a \in 1..Len(actions) : ApplyElementSaved(a)
  \/ \E a \in 1..Len(actions) : CheckSelectedRejects(a)
  \/ \E a \in 1..Len(actions) : CheckNoSelection(a)
  \/ \E a \in 1..Len(actions) : CheckSearch(a)

Spec == Init /\ [][Next]_vars

(***************************************************************************)
(* The controls: one apply click for every combination of control values,  *)
(* the hex input ranging over every text of at most MaxHexLen characters.  *)
(***************************************************************************)
HexInputs == UNION {[1..n -> HexAlphabet] : n \in 0..MaxHexLen}

ControlsClick ==
  /\ actions = <<>>
  /\ \E fontSize \in FontSizeValues, hexValue \in HexInputs,
        dropdownValue \in ColorValues, fontFamily \in OptionValues \cup {""} :
       SubmitClick(fontSize, hexValue, dropdownValue, fontFamily)

ControlsNext ==
  \/ Bootstrap
  \/ ControlsClick

SpecControls == Init /\ [][ControlsNext]_vars


(***************************************************************************)
(* Properties.                                                             *)
(***************************************************************************)
Settled(a) == actions[a].pc \in {"resolved", "rejected"}

\* the click reached applyStyles or checkComboClass
Started(a) == actions[a].calls # <<>>

ApplyClicks == {a \in 1..Len(actions) : actions[a].kind = "apply" /\ Started(a)}
CheckClicks == {a \in 1..Len(actions) : actions[a].kind = "check"}

\* the text `part` was interpolated into (or is a literal part of) the message
Contains(message, part) == \E i \in 1..Len(message) : message[i] = part

\* the handler made exactly one displayFeedback call, of the given type
ReportedOnce(a, type) ==
  /\ Len(actions[a].reports) = 1
  /\ actions[a].reports[1].type = type

SucceededApply(a) ==
  /\ actions[a].kind = "apply"
  /\ actions[a].pc = "resolved"
  /\ ReportedOnce(a, "success")

\* the names the counter is expected to yield, written out
DynamicStyleNames == <<"dynamicStyle0", "dynamicStyle1", "dynamicStyle2",
                       "dynamicStyle3", "dynamicStyle4", "dynamicStyle5">>

\* C1: every failure of a host call made during an apply or a check action
\* is caught inside the handler: the handler's promise resolves (it does not
\* reject) and the handler has reported one Error feedback carrying the cause.
C1_HostFailuresAreCaught ==
  \A a \in 1..Len(actions) :
    (actions[a].failed # "" /\ Settled(a)) =>
      /\ actions[a].pc = "resolved"
      /\ ReportedOnce(a, "error")
      /\ Contains(actions[a].reports[1].message, HostError)

\* C2: a check on a selected element reports Success containing the name
\* when a style of the element has exactly that display name, and Error
\* containing the name ("does not exist") when none has, whether getStyles
\* returned the list or a promise of it.
C2_CheckReportsMembership ==
  \A a \in CheckClicks :
    (/\ actions[a].pc = "resolved"
     /\ actions[a].selectedElement # NoElement
     /\ actions[a].failed = "") =>
      LET name == actions[a].name
          names == actions[a].names
      IN IF \E i \in 1..Len(names) : names[i] = name
         THEN /\ ReportedOnce(a, "success")
              /\ Contains(actions[a].reports[1].message, name)
         ELSE /\ ReportedOnce(a, "error")
              /\ Contains(actions[a].reports[1].message, name)
              /\ Contains(actions[a].reports[1].message, "\" does not exist.")

\* C3 as stated: the name generated for an apply click is dynamicStyle<N>
\* with N the number of successful apply invocations that preceded it
\* (read on the sessions in which no host call has failed).
C3_NameCountsSuccessfulApplies ==
  \A a \in ApplyClicks :
    (\A b \in 1..(a - 1) : Settled(b) /\ actions[b].failed = "") =>
      actions[a].name =
        DynamicStyleNames[1 + Cardinality({b \in 1..(a - 1) : SucceededApply(b)})]

\* C3 amended: the name generated for an apply click is dynamicStyle<N> with
\* N the number of apply clicks that generated a name before it, successful
\* or not; the first name is dynamicStyle0 and the counter is incremented
\* once per such click.
C3_NameCountsApplyClicks ==
  /\ \A a \in ApplyClicks :
       actions[a].name =
         DynamicStyleNames[1 + Cardinality({b \in ApplyClicks : b < a})]
  /\ styleCounter = Cardinality(ApplyClicks)

\* an apply click that failed is followed by an apply click named
\* dynamicStyle1
C3_Witness ==
  \E a, b \in ApplyClicks :
    /\ b < a
    /\ Settled(b)
    /\ ~SucceededApply(b)
    /\ actions[a].name = "dynamicStyle1"

NamesUnique ==
  /\ \A a, b \in ApplyClicks : a # b => actions[a].name # actions[b].name
  /\ \A i, j \in 1..Len(hostStyles) :
       i # j => hostStyles[i].name # hostStyles[j].name

\* C4: the StyleNameCounter never decreases, and no two apply clicks, also
\* when one comes while an earlier apply is suspended on a host call, are
\* given the same name, so no two styles are created with the same name.
C4_CounterMonotoneNamesUnique ==
  /\ [][styleCounter' >= styleCounter]_vars
  /\ []NamesUnique

\* two apply clicks are suspended at once, each on the save of the style it
\* created
C4_Witness ==
  \E a, b \in ApplyClicks :
    /\ a < b
    /\ actions[a].pc = "style.save"
    /\ actions[b].pc = "style.save"
    /\ hostStyles[actions[a].myStyle].name = "dynamicStyle0"
    /\ hostStyles[actions[b].myStyle].name = "dynamicStyle1"

\* C5: applyStyles invoked while no element is selected makes no host call
\* after getSelectedElement (no createStyle, no save), creates no style and
\* reports exactly one Error feedback before returning.
C5_NoSelectionNoCreate ==
  \A a \in ApplyClicks :
    (actions[a].pc = "resolved" /\ actions[a].selectedElement = NoElement) =>
      /\ actions[a].calls = <<"getSelectedElement">>
      /\ actions[a].reports = <<[message |-> MsgNoSelection, type |-> "error"]>>
      /\ \A i \in 1..Len(hostStyles) : hostStyles[i].name # actions[a].name

\* an apply found no selected element and has returned
C5_Witness ==
  \E a \in ApplyClicks :
    /\ actions[a].pc = "resolved"
    /\ actions[a].selectedElement = NoElement
    /\ ReportedOnce(a, "error")
    /\ feedback.textContent = MsgNoSelection


AllApplyCalls == <<"getSelectedElement", "createStyle", "setProperties",
                   "style.save", "setStyles", "element.save">>

\* what C6 says of the steps of one apply action: the step that follows the
\* style save, and the step that follows the element save
C6_ApplyStep(a) ==
  LET rec == actions[a]
      el == rec.selectedElement
      style == [name |-> rec.name, properties |-> rec.styleObject, saved |-> TRUE]
  IN /\ (rec.pc = "style.save" /\ actions'[a].pc = "element.save") =>
          /\ attached'[el] = <<rec.myStyle>>
          /\ hostStyles'[rec.myStyle] = style
     /\ (rec.pc = "element.save" /\ actions'[a].pc = "resolved"
           /\ actions'[a].failed = "") =>
          /\ ElementHasStyles(el)
          /\ actions'[a].calls = AllApplyCalls
          /\ actions'[a].reports = <<[message |-> MsgApplied, type |-> "success"]>>
          /\ feedback' = [textContent |-> MsgApplied, color |-> "green"]
          /\ persistedAttached'[el] = attached[el]
          /\ hostStyles'[rec.myStyle] = style
          /\ Cardinality({i \in 1..Len(hostStyles') :
                            hostStyles'[i].name = rec.name}) = 1

\* C6: applyStyles(spec, name) with a selected element that has a styles
\* collection and with every host call succeeding creates and persists
\* exactly one style, named name and with exactly the properties spec,
\* replaces the element's styles by the list of that one style, persists the
\* element and reports exactly one Success feedback and no Error feedback.
C6_ApplySucceeds ==
  [][\A a \in 1..Len(actions) :
       actions[a].kind = "apply" => C6_ApplyStep(a)]_vars

\* an apply has succeeded on e1, which had the style "hero" attached
C6_Witness ==
  \E a \in ApplyClicks :
    /\ SucceededApply(a)
    /\ actions[a].selectedElement = "e1"
    /\ actions[a].myStyle = 2
    /\ attached["e1"] = <<2>>
    /\ persistedAttached["e1"] = <<2>>
    /\ hostStyles[2].saved

\* C7: every started apply or check action that has completed has written
\* to the feedback region.
C7_CompletedActionsReported ==
  \A a \in 1..Len(actions) :
    (Started(a) /\ Settled(a)) => Len(actions[a].reports) >= 1

\* what C8 says of a step in which the apply call x finishes while another
\* apply call is still suspended on a host call
C8_Step(x) ==
  (/\ ~Settled(x)
   /\ Settled(x)'
   /\ \E y \in ApplyClicks : y # x /\ ~Settled(y)) =>
    /\ Len(actions'[x].reports) = 1
    /\ feedback'.textContent = actions'[x].reports[1].message
    /\ \A y \in ApplyClicks : y # x => actions'[y].name # actions'[x].name
    /\ actions'[x].myStyle # 0 =>
         /\ hostStyles'[actions'[x].myStyle].name = actions'[x].name
         /\ hostStyles'[actions'[x].myStyle].properties
              \in {<<>>, actions'[x].styleObject}

\* C8: when two apply calls overlap, each call completes having issued its
\* own feedback report, its style and name are not those of the other call,
\* and the feedback visible when it has finished is the report of the call
\* that resolved last, which is its own.
C8_OverlappingAppliesReport ==
  [][\A x \in ApplyClicks : C8_Step(x)]_vars

StyleKeys == {"font-size", "color", "font-family"}

\* C9 as stated: every StyleSpec passed to applyStyles has exactly the keys
\* font-size, color and font-family, each value a non-empty string, for
\* every combination of control values.
C9_ValuesNeverEmpty ==
  \A a \in ApplyClicks :
    LET so == actions[a].styleObject
    IN /\ DOMAIN so = StyleKeys
       /\ so["font-size"] # ""
       /\ so["color"] # <<>>
       /\ so["font-family"] # ""

\* '#' followed by exactly 3 or exactly 6 hexadecimal digits
IsHexColorText(h) ==
  /\ Len(h) \in {4, 7}
  /\ h[1] = "#"
  /\ \A i \in 2..Len(h) : h[i] \in HexDigits

\* C9 amended: every StyleSpec passed to applyStyles has exactly the keys
\* font-size, color and font-family; font-size and font-family are the
\* values of their dropdowns, and color is the hex input when that is '#'
\* followed by 3 or 6 hexadecimal digits and the value of the color dropdown
\* otherwise.  So font-size and font-family are empty exactly when their
\* dropdown's value is empty, and color is empty exactly when the hex input
\* is not a valid hex color and the color dropdown's value is empty.
C9_ValuesFollowControls ==
  \A a \in ApplyClicks :
    LET so == actions[a].styleObject
        read == actions[a].read
    IN /\ DOMAIN so = StyleKeys
       /\ so["font-size"] = read.fontSize
       /\ so["font-family"] = read.fontFamily
       /\ IsHexColorText(read.hex) => so["color"] = read.hex
       /\ ~IsHexColorText(read.hex) => so["color"] = read.dropdown
       /\ so["font-size"] = "" <=> read.fontSize = ""
       /\ so["font-family"] = "" <=> read.fontFamily = ""
       /\ so["color"] = <<>> <=>
            (~IsHexColorText(read.hex) /\ read.dropdown = <<>>)

\* an apply click with an invalid hex text and an empty color dropdown
\* passed an empty color
C9_Witness ==
  \E a \in ApplyClicks :
    /\ actions[a].read.hex # <<>>
    /\ actions[a].read.dropdown = <<>>
    /\ actions[a].styleObject["color"] = <<>>
    /\ actions[a].styleObject["font-size"] # ""

\* C10: the color resolver returns the hex input verbatim when it is '#'
\* followed by exactly 3 or exactly 6 hexadecimal digits of either case, and
\* the dropdown value unchanged for every other hex input, the empty one
\* included, also when the dropdown value is empty.
C10_ResolveColor ==
  \A a \in ApplyClicks :
    LET read == actions[a].read
        color == actions[a].styleObject["color"]
    IN IF IsHexColorText(read.hex)
       THEN color = read.hex
       ELSE color = read.dropdown

\* a six-digit hex text of both cases was passed on although a dropdown
\* color was chosen
C10_Witness ==
  \E a \in ApplyClicks :
    /\ actions[a].read.hex = <<"#", "F", "a", "F", "a", "a", "F">>
    /\ actions[a].read.dropdown # <<>>
    /\ actions[a].styleObject["color"] = actions[a].read.hex

\* the six options, written out
SixFontOptions ==
  <<[value |-> "Arial", textContent |-> "Arial"],
    [value |-> "Verdana", textContent |-> "Verdana"],
    [value |-> "Helvetica", textContent |-> "Helvetica"],
    [value |-> "Times New Roman", textContent |-> "Times New Roman"],
    [value |-> "Georgia", textContent |-> "Georgia"],
    [value |-> "Courier New", textContent |-> "Courier New"]>>

\* C11: once the bootstrap has run the family selector holds exactly the six
\* options Arial, Verdana, Helvetica, Times New Roman, Georgia, Courier New
\* in that order, each with its value equal to its label; without the
\* selector element the bootstrap adds nothing and still completes, so that
\* the click handlers are attached.
C11_BootstrapPopulatesFonts ==
  /\ [](booted => fontFamilyOptions = IF dropdownPresent
                                      THEN SixFontOptions
                                      ELSE <<>>)
  /\ [][~booted => booted' /\ styleCounter' = 0]_vars

\* the selector is populated with six options and an apply click has read
\* the first of them
C11_Witness ==
  /\ booted
  /\ dropdownPresent
  /\ Len(fontFamilyOptions) = 6
  /\ \E a \in ApplyClicks : actions[a].read.fontFamily = "Arial"

\* the styles attached to any element, now or as last persisted
AttachedAnywhere ==
  UNION {{attached[e][i] : i \in 1..Len(attached[e])}
           \cup {persistedAttached[e][i] : i \in 1..Len(persistedAttached[e])} :
         e \in Elements}

\* what C12 says of the step in which the style save of apply a fails
C12_Step(a) ==
  (actions[a].failed = "" /\ actions'[a].failed = "style.save") =>
    /\ attached' = attached
    /\ persistedAttached' = persistedAttached
    /\ selection' = selection
    /\ Len(actions'[a].reports) = Len(actions[a].reports) + 1
    /\ feedback' = [textContent |-> <<"Error applying styles: ", HostError>>,
                    color |-> "red"]

\* C12: when the save of the new style fails, applyStyles reports exactly
\* one Error feedback and returns: setStyles and the element's save are
\* never called and the element keeps its styles, save is called once on the
\* style, no Success feedback is reported and the style stays created.
C12_StyleSaveFailure ==
  /\ [](\A a \in ApplyClicks :
          actions[a].failed = "style.save" =>
            /\ actions[a].pc = "resolved"
            /\ actions[a].reports =
                 <<[message |-> <<"Error applying styles: ", HostError>>,
                    type |-> "error"]>>
            /\ actions[a].calls = <<"getSelectedElement", "createStyle",
                                    "setProperties", "style.save">>
            /\ actions[a].myStyle \in 1..Len(hostStyles)
            /\ hostStyles[actions[a].myStyle].name = actions[a].name
            /\ actions[a].myStyle \notin AttachedAnywhere)
  /\ [][\A a \in 1..Len(actions) :
          actions[a].kind = "apply" => C12_Step(a)]_vars

\* the save of the style created for e1 was rejected: the style exists
\* unsaved, e1 still has "hero" and the feedback is the error
C12_Witness ==
  \E a \in ApplyClicks :
    /\ actions[a].failed = "style.save"
    /\ actions[a].pc = "resolved"
    /\ actions[a].selectedElement = "e1"
    /\ ~hostStyles[actions[a].myStyle].saved
    /\ attached["e1"] = <<1>>
    /\ feedback.color = "red"

\* the handler is an apply that fetched an element without a styles
\* collection, and none of its host calls has failed
C13_Case(rec) ==
  /\ rec.kind = "apply"
  /\ rec.selectedElement \in Elements
  /\ ~ElementHasStyles(rec.selectedElement)
  /\ rec.failed = ""

\* C13: on a selected element without a styles collection applyStyles
\* creates and persists the new style, never calls setStyles or save on the
\* element and makes no feedback report: no step of the action changes the
\* text or the color of the feedback region.
C13_NoStylesCollectionSilent ==
  /\ [](\A a \in ApplyClicks :
          (C13_Case(actions[a]) /\ actions[a].pc = "resolved") =>
            /\ actions[a].calls = <<"getSelectedElement", "createStyle",
                                    "setProperties", "style.save">>
            /\ actions[a].reports = <<>>
            /\ hostStyles[actions[a].myStyle] =
                 [name |-> actions[a].name,
                  properties |-> actions[a].styleObject, saved |-> TRUE]
            /\ actions[a].myStyle \notin AttachedAnywhere)
  /\ [][\A a \in 1..Len(actions) :
          (actions'[a] # actions[a] /\ C13_Case(actions'[a])) =>
            /\ feedback' = feedback
            /\ attached' = attached
            /\ persistedAttached' = persistedAttached]_vars

\* an apply on e2 was the last handler to return and made no report: the
\* feedback region still shows the error of the click before it
C13_Witness ==
  \E a \in ApplyClicks :
    /\ actions[a].pc = "resolved"
    /\ actions[a].selectedElement = "e2"
    /\ actions[a].failed = ""
    /\ hostStyles[actions[a].myStyle].saved
    /\ lastSettled = a
    /\ feedback = [textContent |-> MsgNoSelection, color |-> "red"]

\* how many times the handler called the host operation op
CallCount(rec, op) ==
  Cardinality({i \in 1..Len(rec.calls) : rec.calls[i] = op})

\* the handlers that hold a style created by their createStyle call
Creators == {a \in ApplyClicks : actions[a].myStyle # 0}

\* C14 as stated: each apply action creates exactly one NamedStyle (read on
\* the apply actions that have returned and in which no host call failed).
C14_EveryApplyCreatesOne ==
  \A a \in ApplyClicks :
    (Settled(a) /\ actions[a].failed = "") =>
      /\ CallCount(actions[a], "createStyle") = 1
      /\ actions[a].myStyle # 0

\* what the amended C14 says of every state
C14_State ==
  /\ \A a \in ApplyClicks :
       LET rec == actions[a]
       IN /\ CallCount(rec, "createStyle") <= 1
          /\ (rec.selectedElement = NoElement /\ Settled(a)) =>
               (CallCount(rec, "createStyle") = 0 /\ rec.myStyle = 0)
          /\ rec.selectedElement # NoElement =>
               CallCount(rec, "createStyle") = 1
          /\ (rec.selectedElement # NoElement /\ rec.failed # "createStyle") =>
               /\ rec.myStyle \in 2..Len(hostStyles)
               /\ hostStyles[rec.myStyle].name = rec.name
               /\ hostStyles[rec.myStyle].properties \in {<<>>, rec.styleObject}
          /\ CallCount(rec, "setProperties") <= 1
          /\ CallCount(rec, "style.save") <= 1
          /\ CallCount(rec, "setStyles") <= 1
  /\ \A a, b \in Creators : a # b => actions[a].myStyle # actions[b].myStyle
  /\ Len(hostStyles) = 1 + Cardinality(Creators)

\* what the amended C14 says of every step: a style that exists is changed,
\* and a style is attached, only by a step of the action that created it
C14_Step ==
  /\ \A i \in 1..Len(hostStyles) :
       hostStyles'[i] # hostStyles[i] =>
         \E a \in 1..Len(actions) :
           actions'[a] # actions[a] /\ actions[a].myStyle = i
  /\ \A e \in Elements :
       attached'[e] # attached[e] =>
         \E a \in 1..Len(actions) :
           /\ actions'[a] # actions[a]
           /\ actions[a].myStyle # 0
           /\ attached'[e] = <<actions[a].myStyle>>

\* C14 amended: an apply action calls createStyle at most once: exactly once
\* when an element is selected, and not at all when none is selected; the
\* styles of different actions are different, and the extension sets
\* properties on, saves and attaches only the style created in the same
\* action, never a style created by an earlier action.
C14_OwnStyleOnly ==
  /\ []C14_State
  /\ [][C14_Step]_vars

\* two applies have each created a style; the second has attached its own
\* to e1, and the first's style is still as the first action left it
C14_Witness ==
  \E a, b \in ApplyClicks :
    /\ actions[a].myStyle = 2
    /\ actions[b].myStyle = 3
    /\ Settled(a)
    /\ SucceededApply(b)
    /\ attached["e1"] = <<3>>
    /\ hostStyles[2].name = "dynamicStyle0"
    /\ hostStyles[3].name = "dynamicStyle1"

\* a save of element el has resolved: what is persisted of el is the style
\* of an apply action that called setStyles on el
ElementPersisted(el) ==
  \E c \in ApplyClicks :
    /\ actions[c].selectedElement = el
    /\ actions[c].myStyle # 0
    /\ CallCount(actions[c], "setStyles") = 1
    /\ persistedAttached[el] = <<actions[c].myStyle>>

\* the host calls of an apply action are made in the order of the source
C15_CallsInOrder ==
  \A a \in ApplyClicks :
    /\ Len(actions[a].calls) <= Len(AllApplyCalls)
    /\ actions[a].calls = SubSeq(AllApplyCalls, 1, Len(actions[a].calls))

\* Success feedback of an apply is visible or was reported: style and
\* element are persisted
C15_SuccessMeansPersisted ==
  /\ \A a \in ApplyClicks :
       (\E i \in 1..Len(actions[a].reports) :
          actions[a].reports[i].type = "success") =>
         /\ actions[a].calls = AllApplyCalls
         /\ actions[a].failed = ""
         /\ hostStyles[actions[a].myStyle].saved
         /\ ElementPersisted(actions[a].selectedElement)
  /\ feedback.textContent = MsgApplied =>
       \E a \in ApplyClicks :
         /\ SucceededApply(a)
         /\ hostStyles[actions[a].myStyle].saved
         /\ ElementPersisted(actions[a].selectedElement)

\* what C15 says of the steps of apply a: it attaches its style in the step
\* that resumes it from the style save, the save having resolved, and it
\* reports Success in the step that resumes it from the element save, the
\* save having resolved
C15_Step(a) ==
  LET rec == actions[a]
      el == rec.selectedElement
  IN /\ CallCount(actions'[a], "setStyles") > CallCount(rec, "setStyles") =>
          /\ rec.pc = "style.save"
          /\ actions'[a].failed \in {"", "setStyles", "element.save"}
          /\ ~hostStyles[rec.myStyle].saved
          /\ hostStyles'[rec.myStyle].saved
     /\ (el \in Elements /\ Len(attached'[el]) > 0
           /\ attached'[el][1] = rec.myStyle /\ attached'[el] # attached[el]) =>
          /\ rec.pc = "style.save"
          /\ hostStyles'[rec.myStyle].saved
     /\ (Len(actions'[a].reports) > Len(rec.reports)
           /\ actions'[a].reports[Len(actions'[a].reports)].type = "success") =>
          /\ rec.pc = "element.save"
          /\ rec.calls = AllApplyCalls
          /\ actions'[a].failed = ""
          /\ persistedAttached'[el] = attached[el]
          /\ hostStyles[rec.myStyle].saved

\* C15: within one apply action the steps are strictly ordered: the style
\* is attached to the element only after the style's save has resolved, and
\* Success is reported only after the element's save has resolved; whenever
\* Success feedback from an apply is visible, the style and the element
\* have been persisted.
C15_ApplyStepsOrdered ==
  /\ [](C15_CallsInOrder /\ C15_SuccessMeansPersisted)
  /\ [][\A a \in 1..Len(actions) :
          actions[a].kind = "apply" => C15_Step(a)]_vars

\* the Success feedback of one apply is visible while a later apply is
\* suspended on the save of its style, which is not attached yet
C15_Witness ==
  \E a, b \in ApplyClicks :
    /\ SucceededApply(a)
    /\ feedback = [textContent |-> MsgApplied, color |-> "green"]
    /\ actions[b].pc = "style.save"
    /\ actions[b].selectedElement = "e1"
    /\ attached["e1"] = <<actions[a].myStyle>>
    /\ persistedAttached["e1"] = <<actions[a].myStyle>>

\* the feedback region shows the report r
Shows(fb, r) ==
  /\ fb.textContent = r.message
  /\ fb.color = "red" <=> r.type = "error"
  /\ fb.color = "green" <=> r.type = "success"

\* the handlers that make a displayFeedback call in the step
Reporting ==
  {a \in 1..Len(actions) : Len(actions'[a].reports) > Len(actions[a].reports)}

\* what C16 says of every step: a step with a report leaves the region
\* showing that report, text and color together, and a step without a
\* report leaves the region as it was
C16_Step ==
  /\ Cardinality(Reporting) <= 1
  /\ \A a \in Reporting :
       /\ Len(actions'[a].reports) = Len(actions[a].reports) + 1
       /\ Shows(feedback', actions'[a].reports[Len(actions'[a].reports)])
  /\ Reporting = {} => feedback' = feedback
  /\ Len(actions') > Len(actions) =>
       actions'[Len(actions')].reports = <<>>

\* C16: after any sequence of reports from apply and check actions the
\* color of the feedback region is red exactly when the most recent report
\* was an Error and green exactly when it was a Success, and its text is the
\* message of that report: text and color are always updated together.
C16_FeedbackShowsLastReport ==
  /\ [][C16_Step]_vars
  /\ [](IF \A a \in 1..Len(actions) : actions[a].reports = <<>>
        THEN feedback = [textContent |-> <<>>, color |-> ""]
        ELSE /\ feedback.color \in {"red", "green"}
             /\ \E a \in 1..Len(actions) :
                  /\ Len(actions[a].reports) = 1
                  /\ Shows(feedback, actions[a].reports[1]))

\* a check reported an Error and then an apply reported Success: the region
\* shows the Success message in green
C16_Witness ==
  \E a \in CheckClicks, b \in ApplyClicks :
    /\ ReportedOnce(a, "error")
    /\ SucceededApply(b)
    /\ lastSettled = b
    /\ feedback = [textContent |-> <<"Styles successfully applied!">>,
                   color |-> "green"]

\* what C17 says of a step of apply a after it has fetched its element: the
\* step attaches to and persists that element only, whatever is selected by
\* then
C17_Step(a) ==
  LET rec == actions[a]
      el == rec.selectedElement
  IN (rec.pc \in {"style.save", "element.save"} /\ actions'[a] # rec) =>
       /\ actions'[a].selectedElement = el
       /\ \A e \in Elements \ {el} :
            /\ attached'[e] = attached[e]
            /\ persistedAttached'[e] = persistedAttached[e]
       /\ (rec.pc = "style.save" /\ actions'[a].pc = "element.save") =>
            attached'[el] = <<rec.myStyle>>
       /\ (rec.pc = "element.save" /\ actions'[a].failed = "") =>
            persistedAttached'[el] = attached[el]

\* C17: an apply action attaches its style to the element getSelectedElement
\* returned to it: when the selection changes while the action is suspended
\* on the style save, the style is attached to and saved on the element
\* fetched at first and the newly selected element is not modified.
C17_AttachesToFetchedElement ==
  [][\A a \in 1..Len(actions) :
       actions[a].kind = "apply" => C17_Step(a)]_vars

\* an apply that fetched e1 has attached its style to e1 and succeeded
\* although e2 is selected now; e2 has no style
C17_Witness ==
  \E a \in ApplyClicks :
    /\ actions[a].selectedElement = "e1"
    /\ selection = "e2"
    /\ SucceededApply(a)
    /\ attached["e1"] = <<actions[a].myStyle>>
    /\ persistedAttached["e1"] = <<actions[a].myStyle>>
    /\ attached["e2"] = <<>>
    /\ persistedAttached["e2"] = <<>>

\* the host operations that only read
ReadOnlyCalls == {"getSelectedElement", "getStyles", "getName"}

\* the step is the click of a check action or a step of a check handler
CheckStep ==
  \/ /\ Len(actions') > Len(actions)
     /\ actions'[Len(actions')].kind = "check"
  \/ \E a \in 1..Len(actions) :
       actions[a].kind = "check" /\ actions'[a] # actions[a]

\* C18: a check action changes nothing but the feedback region: whether it
\* ends with no selection, found, not found or a failure, it never calls
\* createStyle, setProperties, setStyles or a save, and it leaves the
\* StyleNameCounter unchanged.
C18_CheckIsReadOnly ==
  /\ [](\A a \in CheckClicks :
          /\ \A i \in 1..Len(actions[a].calls) :
               actions[a].calls[i] \in ReadOnlyCalls
          /\ actions[a].myStyle = 0)
  /\ [][CheckStep =>
          /\ styleCounter' = styleCounter
          /\ hostStyles' = hostStyles
          /\ attached' = attached
          /\ persistedAttached' = persistedAttached
          /\ selection' = selection
          /\ fontFamilyOptions' = fontFamilyOptions]_vars

\* one check found its name and another did not; the counter is 0 and the
\* host document is as it was at the start
C18_Witness ==
  \E a, b \in CheckClicks :
    /\ ReportedOnce(a, "success")
    /\ actions[a].calls = <<"getSelectedElement", "getStyles", "getName">>
    /\ ReportedOnce(b, "error")
    /\ actions[b].selectedElement # NoElement
    /\ actions[b].failed = ""
    /\ styleCounter = 0
    /\ hostStyles = <<[name |-> "hero", properties |-> <<>>, saved |-> TRUE]>>
    /\ attached = [e \in Elements |-> IF e = "e1" THEN <<1>> ELSE <<>>]

====
